---- MODULE Spec2Model ----
(***************************************************************************)
(* Model of the Salon Ibargo automation service: the three action          *)
(* endpoints, the after-call handler, the date/time normaliser and the     *)
(* transcript helpers, with the generation client and the sheet sink as    *)
(* the environment. The service keeps nothing between two requests: the    *)
(* state is the request in hand and what answering it did.                 *)
(*                                                                         *)
(* Python values are tagged records [t, v]; v is always a tuple, so two    *)
(* values of different Python types are told apart by the tag alone.       *)
(* A Python str is a tuple of tokens: one character per token wherever     *)
(* the code looks inside the string (dates, times, roles, transcript       *)
(* content), one token for a string the code only compares or copies.      *)
(***************************************************************************)
EXTENDS Integers, Sequences, FiniteSets, TLC

VARIABLES
    request,      \* the inbound request being answered: endpoint and JSON payload
    reply,        \* the HTTP response the service gave to it
    generation,   \* the generation calls made while answering it, in order
    normalized,   \* what normalize_visit_datetime_pst returned or raised for it
    appended      \* the append_row_to_sheet calls made while answering it, in order

vars == <<request, reply, generation, normalized, appended>>

-----------------------------------------------------------------------------
(* Python values *)

None == [t |-> "None", v |-> <<>>]
PyStr(s) == [t |-> "str", v |-> s]
PyInt(n) == [t |-> "int", v |-> <<n>>]
PyList(s) == [t |-> "list", v |-> s]
PyDict(f) == [t |-> "dict", v |-> <<f>>]
PyBool(b) == [t |-> "bool", v |-> <<b>>]

EmptyDict == [k \in {} |-> None]

\* bool(x), as `not x`, `if x:` and all([...]) use it
Truthy(x) ==
    CASE x.t = "None" -> FALSE
      [] x.t = "str"  -> x.v # <<>>
      [] x.t = "int"  -> x.v[1] # 0
      [] x.t = "list" -> x.v # <<>>
      [] x.t = "dict" -> DOMAIN x.v[1] # {}
      [] x.t = "bool" -> x.v[1]

\* isinstance(x, str)
isinstance_str(x) == x.t = "str"

\* d.get(k) on a dict d (a function from the keys present to their values)
get(d, k) == IF k \in DOMAIN d THEN d[k] ELSE None

\* the outcome of a call: a value, or an exception by class name
Return(x) == [raised |-> FALSE, exc |-> "", value |-> x]
Raise(e) == [raised |-> TRUE, exc |-> e, value |-> None]

-----------------------------------------------------------------------------
(* Characters *)

Digit == {"0", "1", "2", "3", "4", "5", "6", "7", "8", "9"}

DigitVal(c) ==
    CASE c = "0" -> 0 [] c = "1" -> 1 [] c = "2" -> 2 [] c = "3" -> 3
      [] c = "4" -> 4 [] c = "5" -> 5 [] c = "6" -> 6 [] c = "7" -> 7
      [] c = "8" -> 8 [] c = "9" -> 9

DigitChar(n) == <<"0", "1", "2", "3", "4", "5", "6", "7", "8", "9">>[n + 1]

\* characters matched by \s and removed by str.strip()
Whitespace == {" ", "\n", "\t"}

\* s[i], or "" past either end
At(s, i) == IF i \in 1..Len(s) THEN s[i] ELSE ""

Pad2(n) == <<DigitChar(n \div 10), DigitChar(n % 10)>>
Pad4(n) == <<DigitChar(n \div 1000), DigitChar((n \div 100) % 10),
             DigitChar((n \div 10) % 10), DigitChar(n % 10)>>

-----------------------------------------------------------------------------
(* datetime: strptime, strftime, isoformat, and zoneinfo's utcoffset *)

NonZero == Digit \ {"0"}

Num2(s, i) == 10 * DigitVal(s[i]) + DigitVal(s[i + 1])

\* The alternatives of one directive's regular expression at position i, in
\* the order the expression lists them (the order backtracking tries them):
\*   %Y \d\d\d\d              %m 1[0-2]|0[1-9]|[1-9]
\*   %d 3[01]|[12]\d|0[1-9]|[1-9]| [1-9]
\*   %H 2[0-3]|[0-1]\d|\d     %M [0-5]\d|\d     %S 6[0-1]|[0-5]\d|\d
\*   a run of blanks in the format is \s+ (greedy: longest first)
Two(s, i, first, second) ==
    IF At(s, i) \in first /\ At(s, i + 1) \in second
    THEN <<[val |-> Num2(s, i), next |-> i + 2]>> ELSE <<>>

One(s, i, first) ==
    IF At(s, i) \in first
    THEN <<[val |-> DigitVal(s[i]), next |-> i + 1]>> ELSE <<>>

WsRun(s, i) ==
    IF At(s, i) \notin Whitespace THEN 0
    ELSE CHOOSE n \in 1..(Len(s) - i + 1) :
            /\ \A k \in i..(i + n - 1) : s[k] \in Whitespace
            /\ At(s, i + n) \notin Whitespace

Candidates(e, s, i) ==
    CASE e = "%Y" ->
            IF \A k \in i..(i + 3) : At(s, k) \in Digit
            THEN <<[val |-> 100 * Num2(s, i) + Num2(s, i + 2), next |-> i + 4]>>
            ELSE <<>>
      [] e = "%m" ->
            Two(s, i, {"1"}, {"0", "1", "2"}) \o Two(s, i, {"0"}, NonZero)
                \o One(s, i, NonZero)
      [] e = "%d" ->
            Two(s, i, {"3"}, {"0", "1"}) \o Two(s, i, {"1", "2"}, Digit)
                \o Two(s, i, {"0"}, NonZero) \o One(s, i, NonZero)
                \o (IF At(s, i) = " " /\ At(s, i + 1) \in NonZero
                    THEN <<[val |-> DigitVal(s[i + 1]), next |-> i + 2]>> ELSE <<>>)
      [] e = "%H" ->
            Two(s, i, {"2"}, {"0", "1", "2", "3"}) \o Two(s, i, {"0", "1"}, Digit)
                \o One(s, i, Digit)
      [] e = "%M" ->
            Two(s, i, {"0", "1", "2", "3", "4", "5"}, Digit) \o One(s, i, Digit)
      [] e = "%S" ->
            Two(s, i, {"6"}, {"0", "1"}) \o Two(s, i, {"0", "1", "2", "3", "4", "5"}, Digit)
                \o One(s, i, Digit)
      [] e = " " ->
            [n \in 1..WsRun(s, i) |-> [val |-> 0, next |-> i + WsRun(s, i) - n + 1]]
      [] OTHER ->
            IF At(s, i) = e THEN <<[val |-> 0, next |-> i + 1]>> ELSE <<>>

NoMatch == [ok |-> FALSE, vals |-> EmptyDict, next |-> 0]

\* re.match of the format's regular expression on s from i: the first match
\* in backtracking order (the alternatives cs of the format's first element
\* are tried from the k-th on). It need not reach the end of s.
RECURSIVE Match(_, _, _)
RECURSIVE Backtrack(_, _, _, _)
Backtrack(fmt, s, cs, k) ==
    IF k > Len(cs) THEN NoMatch
    ELSE LET r == Match(Tail(fmt), s, cs[k].next)
         IN  IF r.ok
             THEN [ok |-> TRUE, vals |-> (Head(fmt) :> cs[k].val) @@ r.vals, next |-> r.next]
             ELSE Backtrack(fmt, s, cs, k + 1)

Match(fmt, s, i) ==
    IF fmt = <<>> THEN [ok |-> TRUE, vals |-> EmptyDict, next |-> i]
    ELSE Backtrack(fmt, s, Candidates(Head(fmt), s, i), 1)

IsLeap(y) == (y % 4 = 0 /\ y % 100 # 0) \/ y % 400 = 0

DaysInMonth(y, m) ==
    CASE m \in {1, 3, 5, 7, 8, 10, 12} -> 31
      [] m \in {4, 6, 9, 11} -> 30
      [] OTHER -> IF IsLeap(y) THEN 29 ELSE 28

\* a datetime object; tzinfo "" is a naive datetime
DateTime(y, mo, d, h, mi, sec, tz) ==
    [t |-> "datetime",
     v |-> <<[year |-> y, month |-> mo, day |-> d, hour |-> h, minute |-> mi,
              second |-> sec, tzinfo |-> tz]>>]

\* datetime.strptime(x, fmt): TypeError unless x is a str; ValueError when the
\* format does not match, when data remains after the match, or when the
\* fields are no date (year 0, day past the month's end, second 60 or 61).
\* Fields the format lacks default to 1900-01-01 00:00:00.
strptime(x, fmt) ==
    IF ~isinstance_str(x) THEN Raise("TypeError")
    ELSE LET m == Match(fmt, x.v, 1)
             f(e, default) == IF e \in DOMAIN m.vals THEN m.vals[e] ELSE default
             y == f("%Y", 1900)
             mo == f("%m", 1)
             d == f("%d", 1)
         IN  IF ~m.ok \/ m.next # Len(x.v) + 1 THEN Raise("ValueError")
             ELSE IF y < 1 \/ d > DaysInMonth(y, mo) \/ f("%S", 0) > 59
                  THEN Raise("ValueError")
             ELSE Return(DateTime(y, mo, d, f("%H", 0), f("%M", 0), f("%S", 0), ""))

\* dt.replace(tzinfo=tz)
replace_tzinfo(dt, tz) == [dt EXCEPT !.v[1].tzinfo = tz]

\* dt.strftime(fmt). %Y is written with four digits; for a year below 1000
\* the C library decides the padding, so the model keeps to years from 1000.
RECURSIVE strftime(_, _)
strftime(dt, fmt) ==
    IF fmt = <<>> THEN <<>>
    ELSE LET e == Head(fmt)
             d == dt.v[1]
         IN  (CASE e = "%Y" -> Pad4(d.year)
                [] e = "%m" -> Pad2(d.month)
                [] e = "%d" -> Pad2(d.day)
                [] e = "%H" -> Pad2(d.hour)
                [] e = "%M" -> Pad2(d.minute)
                [] e = "%S" -> Pad2(d.second)
                [] OTHER -> <<e>>) \o strftime(dt, Tail(fmt))

\* days from 1970-01-01 to the civil date (proleptic Gregorian)
DaysFromCivil(y, m, d) ==
    LET yy == IF m <= 2 THEN y - 1 ELSE y
        era == yy \div 400
        yoe == yy - era * 400
        mp == IF m > 2 THEN m - 3 ELSE m + 9
        doy == (153 * mp + 2) \div 5 + d - 1
        doe == yoe * 365 + yoe \div 4 - yoe \div 100 + doy
    IN  era * 146097 + doe - 719468

\* 0 = Sunday
Weekday(y, m, d) == (DaysFromCivil(y, m, d) + 4) % 7

\* the day of month of the n-th Sunday of month m
NthSunday(y, m, n) == 1 + ((7 - Weekday(y, m, 1)) % 7) + 7 * (n - 1)

\* ZoneInfo("America/Los_Angeles").utcoffset(dt) in minutes, for the wall
\* time of dt with fold = 0, under the rule in force from 2007: daylight time
\* from 02:00 on the second Sunday of March to 02:00 on the first Sunday of
\* November. A wall time in the skipped hour keeps the offset before the
\* change; one in the repeated hour is its first occurrence.
utcoffset(dt) ==
    LET d == dt.v[1]
        start == NthSunday(d.year, 3, 2)
        end == NthSunday(d.year, 11, 1)
        afterStart == \/ d.month > 3
                      \/ d.month = 3 /\ (d.day > start \/ (d.day = start /\ d.hour >= 3))
        beforeEnd == \/ d.month < 11
                     \/ d.month = 11 /\ (d.day < end \/ (d.day = end /\ d.hour < 2))
    IN  IF afterStart /\ beforeEnd THEN -420 ELSE -480

\* dt.isoformat(): YYYY-MM-DDTHH:MM:SS, then +HH:MM or -HH:MM when dt is aware
isoformat(dt) ==
    LET d == dt.v[1]
        off == utcoffset(dt)
        mag == IF off < 0 THEN -off ELSE off
    IN  Pad4(d.year) \o <<"-">> \o Pad2(d.month) \o <<"-">> \o Pad2(d.day) \o <<"T">>
            \o Pad2(d.hour) \o <<":">> \o Pad2(d.minute) \o <<":">> \o Pad2(d.second)
            \o (IF d.tzinfo = "" THEN <<>>
                ELSE <<IF off < 0 THEN "-" ELSE "+">> \o Pad2(mag \div 60)
                         \o <<":">> \o Pad2(mag % 60))

\* int((b - a).total_seconds()) for two datetimes with the same tzinfo object:
\* Python then ignores the tzinfo and subtracts the wall times.
seconds_between(a, b) ==
    LET x == a.v[1]
        y == b.v[1]
        days == DaysFromCivil(y.year, y.month, y.day) - DaysFromCivil(x.year, x.month, x.day)
        secs(d) == (d.hour * 60 + d.minute) * 60 + d.second
    IN  days * 86400 + secs(y) - secs(x)

-----------------------------------------------------------------------------
(* str methods and json.loads *)

\* a one-token string: a dict key or a literal the code compares or copies
K(token) == <<token>>

Lower == <<"a", "b", "c", "d", "e", "f", "g", "h", "i", "j", "k", "l", "m",
           "n", "o", "p", "q", "r", "s", "t", "u", "v", "w", "x", "y", "z">>
Upper == <<"A", "B", "C", "D", "E", "F", "G", "H", "I", "J", "K", "L", "M",
           "N", "O", "P", "Q", "R", "S", "T", "U", "V", "W", "X", "Y", "Z">>

\* s.upper()
upper(s) ==
    [i \in 1..Len(s) |->
        IF \E k \in 1..26 : Lower[k] = s[i]
        THEN Upper[CHOOSE k \in 1..26 : Lower[k] = s[i]] ELSE s[i]]

\* s.replace(old, new) for one-character old and new
replace(s, old, new) == [i \in 1..Len(s) |-> IF s[i] = old THEN new ELSE s[i]]

\* s.strip()
strip(s) ==
    IF \A i \in 1..Len(s) : s[i] \in Whitespace THEN <<>>
    ELSE LET a == CHOOSE i \in 1..Len(s) :
                      s[i] \notin Whitespace /\ \A j \in 1..(i - 1) : s[j] \in Whitespace
             b == CHOOSE i \in 1..Len(s) :
                      s[i] \notin Whitespace /\ \A j \in (i + 1)..Len(s) : s[j] \in Whitespace
         IN  SubSeq(s, a, b)

\* sep.join(parts)
RECURSIVE join(_, _)
join(sep, parts) ==
    IF parts = <<>> THEN <<>>
    ELSE IF Len(parts) = 1 THEN parts[1]
    ELSE parts[1] \o sep \o join(sep, Tail(parts))

\* A JSON text is written one token per punctuation mark, quote, digit and
\* blank; the words null, true and false are one token each; what stands
\* between two quotes is the string's content (no escapes are modelled).
SkipWs(s, i) == i + WsRun(s, i)

DigitRun(s, i) ==
    CHOOSE n \in 0..(Len(s) - i + 1) :
        /\ \A k \in i..(i + n - 1) : s[k] \in Digit
        /\ At(s, i + n) \notin Digit

RECURSIVE NumVal(_, _, _)
NumVal(s, i, n) ==
    IF n = 0 THEN 0 ELSE 10 * NumVal(s, i, n - 1) + DigitVal(s[i + n - 1])

NoValue == [ok |-> FALSE, value |-> None, next |-> 0]

\* the decoder's scan of one JSON value starting at or after position i
RECURSIVE ParseValue(_, _)
RECURSIVE ParseElements(_, _, _)
RECURSIVE ParseMembers(_, _, _)
ParseString(s, i) ==
    IF At(s, i) # "\"" \/ ~\E j \in (i + 1)..Len(s) : s[j] = "\"" THEN NoValue
    ELSE LET j == CHOOSE j \in (i + 1)..Len(s) :
                      s[j] = "\"" /\ \A k \in (i + 1)..(j - 1) : s[k] # "\""
         IN  [ok |-> TRUE, value |-> PyStr(SubSeq(s, i + 1, j - 1)), next |-> j + 1]

ParseValue(s, i0) ==
    LET i == SkipWs(s, i0)
        c == At(s, i)
    IN  CASE c = "\"" -> ParseString(s, i)
          [] c \in Digit ->
                LET n == IF c = "0" THEN 1 ELSE DigitRun(s, i)
                IN  [ok |-> TRUE, value |-> PyInt(NumVal(s, i, n)), next |-> i + n]
          [] c = "null" -> [ok |-> TRUE, value |-> None, next |-> i + 1]
          [] c = "true" -> [ok |-> TRUE, value |-> PyBool(TRUE), next |-> i + 1]
          [] c = "false" -> [ok |-> TRUE, value |-> PyBool(FALSE), next |-> i + 1]
          [] c = "[" ->
                IF At(s, SkipWs(s, i + 1)) = "]"
                THEN [ok |-> TRUE, value |-> PyList(<<>>), next |-> SkipWs(s, i + 1) + 1]
                ELSE ParseElements(s, i + 1, <<>>)
          [] c = "{" ->
                IF At(s, SkipWs(s, i + 1)) = "}"
                THEN [ok |-> TRUE, value |-> PyDict(EmptyDict), next |-> SkipWs(s, i + 1) + 1]
                ELSE ParseMembers(s, i + 1, EmptyDict)
          [] OTHER -> NoValue

ParseElements(s, i, acc) ==
    LET e == ParseValue(s, i)
        j == SkipWs(s, e.next)
    IN  IF ~e.ok THEN NoValue
        ELSE IF At(s, j) = "," THEN ParseElements(s, j + 1, Append(acc, e.value))
        ELSE IF At(s, j) = "]"
             THEN [ok |-> TRUE, value |-> PyList(Append(acc, e.value)), next |-> j + 1]
        ELSE NoValue

\* a key given twice keeps its last value
ParseMembers(s, i, acc) ==
    LET k == ParseString(s, SkipWs(s, i))
        c == SkipWs(s, k.next)
        e == ParseValue(s, c + 1)
        j == SkipWs(s, e.next)
    IN  IF ~k.ok \/ At(s, c) # ":" THEN NoValue
        ELSE IF ~e.ok THEN NoValue
        ELSE LET d == (k.value.v :> e.value) @@ acc
             IN  IF At(s, j) = "," THEN ParseMembers(s, j + 1, d)
                 ELSE IF At(s, j) = "}"
                      THEN [ok |-> TRUE, value |-> PyDict(d), next |-> j + 1]
                 ELSE NoValue

\* json.loads(text): the value, or JSONDecodeError when no value starts the
\* text or anything but blanks follows it
json_loads(text) ==
    LET r == ParseValue(text, 1)
    IN  IF r.ok /\ SkipWs(text, r.next) = Len(text) + 1
        THEN Return(r.value) ELSE Raise("JSONDecodeError")

-----------------------------------------------------------------------------
(* salon_ibargo_ai_utils.py *)

PST == "America/Los_Angeles"
SUM_MODEL == "gpt-5-nano"
STD_MODEL == "gpt-5-mini"

\* What the generation service does with one request: the call fails, or it
\* answers with output items. An item is a dict of its attributes; "content",
\* when present, is a list of blocks, each with a "type" and a "text".
Response(output) == [t |-> "Response", v |-> output]
Coroutine(outcome) == [t |-> "coroutine", v |-> <<outcome>>]

\* the same call on an asynchronous client: a coroutine that yields the
\* response, or raises, when awaited
async_responses_create(o) ==
    Return(Coroutine(IF o.raises THEN Raise("APIError") ELSE Return(Response(o.output))))

\* client.responses.create(model=..., input=...), client = OpenAI(...): the
\* synchronous client does the request inside the call and returns the
\* Response object itself
client_responses_create(o) ==
    IF o.raises THEN Raise("APIError") ELSE Return(Response(o.output))

\* `await x`: the result of an awaitable; TypeError ("object Response can't be
\* used in 'await' expression") for any other object
await(x) == IF x.t = "coroutine" THEN x.v[1] ELSE Raise("TypeError")

\* the first output_text block of one item's content, as <<text>>, or <<>>
RECURSIVE first_output_text(_)
first_output_text(blocks) ==
    IF blocks = <<>> THEN <<>>
    ELSE LET content == Head(blocks).v[1]
         IN  IF get(content, K("type")) = PyStr(K("output_text"))
             THEN <<strip(content[K("text")].v)>>
             ELSE first_output_text(Tail(blocks))

RECURSIVE extract_items(_)
extract_items(output) ==
    IF output = <<>> THEN <<>>
    ELSE LET item == Head(output).v[1]
             found == IF K("content") \in DOMAIN item /\ Truthy(item[K("content")])
                      THEN first_output_text(item[K("content")].v) ELSE <<>>
         IN  IF found # <<>> THEN found ELSE extract_items(Tail(output))

\* extract_text(response); an object without .output raises AttributeError
extract_text(response) ==
    IF response.t # "Response" THEN Raise("AttributeError")
    ELSE LET found == extract_items(response.v)
         IN  Return(PyStr(IF found = <<>> THEN <<>> ELSE found[1]))

\* a generator that keeps every turn that has a content key, empty or not
render_turn_with_key(turn) ==
    IF turn.t # "dict" THEN Raise("AttributeError")
    ELSE LET item == turn.v[1]
         IN  IF K("content") \notin DOMAIN item THEN Return(PyList(<<>>))
             ELSE IF K("role") \notin DOMAIN item THEN Raise("KeyError")
             ELSE IF ~isinstance_str(item[K("role")]) THEN Raise("AttributeError")
             ELSE IF ~isinstance_str(item[K("content")]) THEN Raise("AttributeError")
             ELSE Return(PyList(<<upper(item[K("role")].v) \o <<":", " ">>
                                    \o strip(replace(item[K("content")].v, "\n", " "))>>))

\* one turn of the join's generator: <<>> for a turn that is skipped
render_turn(turn) ==
    IF turn.t # "dict" THEN Raise("AttributeError")
    ELSE LET item == turn.v[1]
         IN  IF ~Truthy(get(item, K("content"))) THEN Return(PyList(<<>>))
             ELSE IF K("role") \notin DOMAIN item THEN Raise("KeyError")
             ELSE IF ~isinstance_str(item[K("role")]) THEN Raise("AttributeError")
             ELSE IF ~isinstance_str(item[K("content")]) THEN Raise("AttributeError")
             ELSE Return(PyList(<<upper(item[K("role")].v) \o <<":", " ">>
                                    \o strip(replace(item[K("content")].v, "\n", " "))>>))

RECURSIVE render_turns(_, _)
render_turns(turns, acc) ==
    IF turns = <<>> THEN Return(PyStr(join(<<" ", "|", " ">>, acc)))
    ELSE LET r == render_turn(Head(turns))
         IN  IF r.raised THEN r ELSE render_turns(Tail(turns), acc \o r.value.v)

\* transcript_to_single_line(transcript)
transcript_to_single_line(transcript) ==
    IF transcript.t # "list" THEN Raise("TypeError")
    ELSE render_turns(transcript.v, <<>>)

\* summarize_transcript(transcript), the service doing o if it is asked:
\* what the call returns or raises, and the generation calls it made (each
\* with what the service did with it)
summarize_transcript(transcript, o) ==
    LET transcript_text == transcript_to_single_line(transcript)
        call == [model |-> SUM_MODEL, input |-> <<transcript_text.value>>, outcome |-> o]
        response == client_responses_create(o)
    IN  IF transcript_text.raised THEN [result |-> transcript_text, calls |-> <<>>]
        ELSE IF response.raised THEN [result |-> response, calls |-> <<call>>]
        ELSE [result |-> extract_text(response.value), calls |-> <<call>>]

DATE_FORMAT == <<"%Y", "-", "%m", "-", "%d">>
TIME_FORMAT == <<"%H", ":", "%M">>
DATETIME_FORMAT == <<"%Y", "-", "%m", "-", "%d", " ", "%H", ":", "%M">>

\* the same result under another zone name
low_confidence_utc(date_str, time_str) ==
    PyDict(K("visit_date") :> date_str @@ K("visit_time") :> time_str
            @@ K("visit_datetime_iso") :> None @@ K("timezone") :> PyStr(K("UTC"))
            @@ K("confidence") :> PyStr(K("low")))

\* a result with confidence "low" and no timestamp
low_confidence(date_str, time_str) ==
    PyDict(K("visit_date") :> date_str @@ K("visit_time") :> time_str
            @@ K("visit_datetime_iso") :> None @@ K("timezone") :> PyStr(K(PST))
            @@ K("confidence") :> PyStr(K("low")))

\* the try block: the call, the await of what it returned, extract_text and
\* json.loads; the parsed data, or whichever exception came first
normalizer_try(o) ==
    LET created == client_responses_create(o)
        response == IF created.raised THEN created ELSE await(created.value)
        raw_text == IF response.raised THEN response ELSE extract_text(response.value)
    IN  IF raw_text.raised THEN raw_text ELSE json_loads(raw_text.value.v)

\* an except branch that reports confidence "high" with nothing resolved
normalizer_except_high ==
    Return(PyDict(K("visit_date") :> None @@ K("visit_time") :> None
            @@ K("visit_datetime_iso") :> None @@ K("timezone") :> PyStr(K(PST))
            @@ K("confidence") :> PyStr(K("high"))))

\* the except branch
normalizer_except == Return(low_confidence(None, None))

\* HARD TYPE VALIDATION
types_valid(date_str, time_str) == isinstance_str(date_str) /\ isinstance_str(time_str)

\* FORMAT VALIDATION
format_valid(date_str, time_str) ==
    /\ ~strptime(date_str, DATE_FORMAT).raised
    /\ ~strptime(time_str, TIME_FORMAT).raised

\* CONFIDENCE CHECK: confidence != "high"
confidence_not_high(confidence) == ~(confidence.t = "str" /\ confidence.v = K("high"))

\* SAFE DATETIME CONSTRUCTION
high_confidence(date_str, time_str) ==
    LET parsed == strptime(PyStr(date_str.v \o <<" ">> \o time_str.v), DATETIME_FORMAT)
        dt == replace_tzinfo(parsed.value, PST)
    IN  IF parsed.raised THEN parsed
        ELSE Return(PyDict(
                K("visit_date") :> PyStr(strftime(dt, DATE_FORMAT))
                @@ K("visit_time") :> PyStr(strftime(dt, TIME_FORMAT))
                @@ K("visit_datetime_iso") :> PyStr(isoformat(dt))
                @@ K("timezone") :> PyStr(K(PST))
                @@ K("confidence") :> PyStr(K("high"))))

\* what follows the try statement, on the parsed data
normalizer_validate(data) ==
    IF data.t # "dict" THEN Raise("AttributeError")
    ELSE LET d == data.v[1]
             date_str == get(d, K("date"))
             time_str == get(d, K("time"))
             confidence == IF K("confidence") \in DOMAIN d
                           THEN d[K("confidence")] ELSE PyStr(K("low"))
         IN  IF ~types_valid(date_str, time_str)
             THEN Return(low_confidence(date_str, time_str))
             ELSE IF ~format_valid(date_str, time_str)
             THEN Return(low_confidence(date_str, time_str))
             ELSE IF confidence_not_high(confidence)
             THEN Return(low_confidence(date_str, time_str))
             ELSE high_confidence(date_str, time_str)

\* normalize_visit_datetime_pst(visit_date, visit_time) at the instant now,
\* the service doing o: what the call returns or raises, and the generation
\* call it made
normalize_visit_datetime_pst(visit_date, visit_time, now, o) ==
    LET reference_date_str == PyStr(strftime(now, DATE_FORMAT))
        reference_time_str == PyStr(strftime(now, TIME_FORMAT))
        prompt == <<reference_date_str, reference_time_str, visit_date, visit_time>>
        data == normalizer_try(o)
    IN  [result |-> IF data.raised THEN normalizer_except
                    ELSE normalizer_validate(data.value),
         calls |-> <<[model |-> STD_MODEL, input |-> prompt, outcome |-> o]>>]

-----------------------------------------------------------------------------
(* salon_ibargo_actions.py *)

\* s.lower()
lower(s) ==
    [i \in 1..Len(s) |->
        IF \E k \in 1..26 : Upper[k] = s[i]
        THEN Lower[CHOOSE k \in 1..26 : Upper[k] = s[i]] ELSE s[i]]

\* str(n) for an integer n >= 0
RECURSIVE Decimal(_)
Decimal(n) == IF n < 10 THEN <<DigitChar(n)>> ELSE Decimal(n \div 10) \o <<DigitChar(n % 10)>>

\* how an f-string writes a str, an int or None
format(x) ==
    CASE x.t = "str" -> x.v
      [] x.t = "int" -> Decimal(x.v[1])
      [] OTHER -> K("None")

\* raise HTTPException(status_code=..., detail=...)
HTTPException(status_code, detail) ==
    [raised |-> TRUE, exc |-> "HTTPException",
     value |-> PyDict(K("status_code") :> PyInt(status_code) @@ K("detail") :> PyStr(K(detail)))]

\* what a handler did: its return value or exception, the generation calls
\* it made, what the normaliser gave it (<<>> if it was not called) and the
\* rows it appended. The record is compared with itself where it is built:
\* that puts it, and every value in it, in TLC's normal form before TLC's
\* worker threads share it.
Handled(result, calls, norm, appends) ==
    LET h == [result |-> result, calls |-> calls, normalized |-> norm, appends |-> appends]
    IN  IF h = h THEN h ELSE h

\* extract_base_fields(payload): None, or the exception it raises
extract_base_fields(payload) ==
    IF ~Truthy(get(payload, K("conversation_id")))
    THEN HTTPException(400, "conversation_id is required")
    ELSE IF ~Truthy(get(payload, K("channel")))
    THEN HTTPException(400, "channel is required")
    ELSE Return(None)

\* multiplica_numeros_endpoint; number1 and number2 are integers when given
multiplica_numeros_endpoint(payload) ==
    LET base == extract_base_fields(payload)
        number1 == get(payload, K("number1"))
        number2 == get(payload, K("number2"))
        result == PyInt(number1.v[1] * number2.v[1])
    IN  Handled(
            IF base.raised THEN base
            ELSE IF number1 = None \/ number2 = None
            THEN HTTPException(400, "number1 and number2 are required")
            ELSE Return(PyDict(
                    K("status") :> PyStr(K("success"))
                    @@ K("result") :> result
                    @@ K("message") :> PyStr(K("The product of ") \o format(number1)
                            \o K(" and ") \o format(number2) \o K(" is ") \o format(result)))),
            <<>>, <<>>, <<>>)

\* a gate that looks for the confidence key, not at its value
confidence_missing(result) == K("confidence") \notin DOMAIN result

\* the endpoint's gate: normalized.get("confidence") != "high"
confidence_not_high_gate(result) == get(result, K("confidence")) # PyStr(K("high"))

\* agendar_cita_disponibilidad_endpoint at the instant now, the generation
\* service doing o if it is asked
agendar_cita_disponibilidad_endpoint(payload, now, o) ==
    LET base == extract_base_fields(payload)
        name == get(payload, K("name"))
        visit_date == get(payload, K("visit_date"))
        visit_time == get(payload, K("visit_time"))
        purpose == get(payload, K("purpose"))
        called == normalize_visit_datetime_pst(visit_date, visit_time, now, o)
        norm == called.result.value.v[1]
        visit == PyDict(K("name") :> name @@ K("purpose") :> purpose
                    @@ K("visit_date") :> norm[K("visit_date")]
                    @@ K("visit_time") :> norm[K("visit_time")])
    IN  IF base.raised THEN Handled(base, <<>>, <<>>, <<>>)
        ELSE IF ~(Truthy(name) /\ Truthy(visit_date) /\ Truthy(visit_time) /\ Truthy(purpose))
        THEN Handled(HTTPException(400, "name, visit_date, visit_time, and purpose are required"),
                     <<>>, <<>>, <<>>)
        ELSE IF called.result.raised
        THEN Handled(called.result, called.calls, <<called.result>>, <<>>)
        ELSE IF confidence_not_high_gate(norm)
        THEN Handled(HTTPException(400, "Visit date/time could not be confidently normalized"),
                     called.calls, <<called.result>>, <<>>)
        ELSE Handled(
                Return(PyDict(
                    K("status") :> PyStr(K("confirmed"))
                    @@ K("confirmed_visit") :> visit
                    @@ K("message") :> PyStr(K("Perfecto ") \o format(name)
                            \o K(". Tu visita quedó agendada para el ")
                            \o format(norm[K("visit_date")]) \o K(" a las ")
                            \o format(norm[K("visit_time")]) \o K(".")))),
                called.calls, <<called.result>>, <<>>)

\* cotizar_evento_endpoint; tipo_evento is a str and numero_invitados an
\* integer >= 0 when given. The products by 1.2 and 1.1 of these integers
\* round to the exact integer in binary floating point, so int() of them is
\* the integer quotient.
cotizar_evento_endpoint(payload) ==
    LET base == extract_base_fields(payload)
        tipo_evento == get(payload, K("tipo_evento"))
        numero_invitados == get(payload, K("numero_invitados"))
        base_price == 5000
        price_per_guest == 350
        subtotal == base_price + numero_invitados.v[1] * price_per_guest
        tipo == lower(tipo_evento.v)
        cotizacion ==
            IF tipo \in {<<"b", "o", "d", "a">>, <<"w", "e", "d", "d", "i", "n", "g">>}
            THEN (subtotal * 12) \div 10
            ELSE IF tipo \in {<<"c", "o", "n", "f", "e", "r", "e", "n", "c", "i", "a">>,
                              <<"c", "o", "r", "p", "o", "r", "a", "t", "i", "v", "o">>}
            THEN (subtotal * 11) \div 10
            ELSE subtotal
    IN  Handled(
            IF base.raised THEN base
            ELSE IF ~Truthy(tipo_evento) \/ numero_invitados = None
            THEN HTTPException(400, "tipo_evento and numero_invitados are required")
            ELSE Return(PyDict(
                    K("status") :> PyStr(K("success"))
                    @@ K("estimated_price_mxn") :> PyInt(cotizacion)
                    @@ K("message") :> PyStr(K("Para un ") \o format(tipo_evento)
                            \o K(" con aproximadamente ") \o format(numero_invitados)
                            \o K(" invitados, la cotización estimada es de ")
                            \o Decimal(cotizacion) \o K(" MXN.")))),
            <<>>, <<>>, <<>>)

-----------------------------------------------------------------------------
(* salon_ibargo_after_call_handler.py *)

CHAT_HEADERS ==
    <<K("Creado"), K("Empiezo Chat"), K("Termino Chat"), K("Duración"),
      K("Transcripción"), K("Resumen"), K("ID")>>

CALL_HEADERS ==
    <<K("Creado"), K("Empiezo Llamada"), K("Termino Llamada"), K("Duración"),
      K("Transcripción"), K("Resumen"), K("ID")>>

VISIT_HEADERS ==
    <<K("Creado"), K("Nombre"), K("Motivo"), K("Fecha"), K("Hora"),
      K("ID Conversación"), K("Canal")>>

TIMESTAMP_FORMAT == <<"%Y", "-", "%m", "-", "%d", " ", "%H", ":", "%M", ":", "%S">>

\* one call of append_row_to_sheet(sheet_name=, headers=, row=)
append_row_to_sheet(sheet_name, headers, row) ==
    [sheet_name |-> sheet_name, headers |-> headers, row |-> row]

\* the row of the conversation sheet: Llamadas for the channel "voice", Chats
\* for "chat" and, with the same row, for any other channel
conversation_row(channel, created_str, started_fmt, ended_fmt, duration, single_line_transcript, summary, conversation_id) ==
    IF channel = PyStr(K("voice"))
    THEN append_row_to_sheet("Llamadas", CALL_HEADERS,
            K("Creado") :> PyStr(created_str)
            @@ K("Empiezo Llamada") :> PyStr(started_fmt)
            @@ K("Termino Llamada") :> PyStr(ended_fmt)
            @@ K("Duración") :> PyInt(duration)
            @@ K("Transcripción") :> single_line_transcript
            @@ K("Resumen") :> summary
            @@ K("ID") :> conversation_id)
    ELSE append_row_to_sheet("Chats", CHAT_HEADERS,
            K("Creado") :> PyStr(created_str)
            @@ K("Empiezo Chat") :> PyStr(started_fmt)
            @@ K("Termino Chat") :> PyStr(ended_fmt)
            @@ K("Duración") :> PyInt(duration)
            @@ K("Transcripción") :> single_line_transcript
            @@ K("Resumen") :> summary
            @@ K("ID") :> conversation_id)

\* the row of the Citas sheet, or the exception building it raises
visit_row(confirmed_visit, created_str, conversation_id) ==
    IF confirmed_visit.t # "dict" THEN Raise("TypeError")
    ELSE LET cv == confirmed_visit.v[1]
         IN  IF {K("name"), K("purpose"), K("visit_date"), K("visit_time")} \subseteq DOMAIN cv
             THEN Return(PyDict(
                    K("Creado") :> PyStr(created_str)
                    @@ K("Nombre") :> cv[K("name")]
                    @@ K("Motivo") :> cv[K("purpose")]
                    @@ K("Fecha") :> cv[K("visit_date")]
                    @@ K("Hora") :> cv[K("visit_time")]
                    @@ K("ID Conversación") :> conversation_id))
             ELSE Raise("KeyError")

\* handle_salon_after_call, the generation service doing o if it is asked
handle_salon_after_call(payload, o) ==
    LET conversation_id == payload[K("conversation_id")]
        channel == payload[K("channel")]
        started_str == payload[K("conversation_started_at")]
        ended_str == payload[K("conversation_ended_at")]
        transcript == IF K("transcript") \in DOMAIN payload
                      THEN payload[K("transcript")] ELSE PyList(<<>>)
        confirmed_visit == get(payload, K("confirmed_visit"))
        started == strptime(started_str, TIMESTAMP_FORMAT)
        ended == strptime(ended_str, TIMESTAMP_FORMAT)
        conversation_started_at == replace_tzinfo(started.value, PST)
        conversation_ended_at == replace_tzinfo(ended.value, PST)
        duration == seconds_between(conversation_started_at, conversation_ended_at)
        summarized == IF Truthy(transcript) THEN summarize_transcript(transcript, o)
                      ELSE [result |-> Return(None), calls |-> <<>>]
        summary == summarized.result.value
        single_line_transcript == transcript_to_single_line(transcript)
        created_str == strftime(conversation_ended_at, TIMESTAMP_FORMAT)
        started_fmt == strftime(conversation_started_at, TIMESTAMP_FORMAT)
        ended_fmt == strftime(conversation_ended_at, TIMESTAMP_FORMAT)
        first == conversation_row(channel, created_str, started_fmt, ended_fmt, duration,
                                  single_line_transcript.value, summary, conversation_id)
        second == visit_row(confirmed_visit, created_str, conversation_id)
    IN  IF ~({K("conversation_id"), K("channel"), K("conversation_started_at"),
              K("conversation_ended_at")} \subseteq DOMAIN payload)
        THEN Handled(Raise("KeyError"), <<>>, <<>>, <<>>)
        ELSE IF started.raised THEN Handled(started, <<>>, <<>>, <<>>)
        ELSE IF ended.raised THEN Handled(ended, <<>>, <<>>, <<>>)
        ELSE IF summarized.result.raised
        THEN Handled(summarized.result, summarized.calls, <<>>, <<>>)
        ELSE IF single_line_transcript.raised
        THEN Handled(single_line_transcript, summarized.calls, <<>>, <<>>)
        ELSE IF ~Truthy(confirmed_visit)
        THEN Handled(Return(PyDict(K("status") :> PyStr(K("processed")))),
                     summarized.calls, <<>>, <<first>>)
        ELSE IF second.raised THEN Handled(second, summarized.calls, <<>>, <<first>>)
        ELSE Handled(Return(PyDict(K("status") :> PyStr(K("processed")))),
                     summarized.calls, <<>>,
                     <<first, append_row_to_sheet("Citas", VISIT_HEADERS, second.value.v[1])>>)

-----------------------------------------------------------------------------
(* main.py *)

\* global_error_handler
global_error_handler ==
    [status_code |-> 500, content |-> PyDict(K("error") :> PyStr(K("internal_server_error")))]

\* the response to a request whose handler returned or raised `result`: the
\* returned content with status 200, an HTTPException as its status and
\* detail, any other exception through the global error handler
respond(result) ==
    IF ~result.raised THEN [status_code |-> 200, content |-> result.value]
    ELSE IF result.exc = "HTTPException"
    THEN [status_code |-> result.value.v[1][K("status_code")].v[1],
          content |-> PyDict(K("detail") :> result.value.v[1][K("detail")])]
    ELSE global_error_handler

-----------------------------------------------------------------------------
(* The environment: requests, the generation service's answers, the clock *)

\* d without the key k
Without(d, k) == [x \in DOMAIN d \ {k} |-> d[x]]

\* d with key k set to x
With(d, k, x) == (k :> x) @@ d

Chars_2026_01_20 == <<"2", "0", "2", "6", "-", "0", "1", "-", "2", "0">>
Chars_2026_13_40 == <<"2", "0", "2", "6", "-", "1", "3", "-", "4", "0">>
Chars_2026_1_5 == <<"2", "0", "2", "6", "-", "1", "-", "5">>
Chars_2026_03_08 == <<"2", "0", "2", "6", "-", "0", "3", "-", "0", "8">>
Chars_19_00 == <<"1", "9", ":", "0", "0">>
Chars_02_30 == <<"0", "2", ":", "3", "0">>
Chars_7_pm == <<"7", " ", "p", "m">>
Chars_17_45_00 == <<"1", "7", ":", "4", "5", ":", "0", "0">>
Chars_17_50_30 == <<"1", "7", ":", "5", "0", ":", "3", "0">>

\* datetime.now(PST)
Now == {DateTime(2026, 1, 19, 17, 45, 0, PST)}

Quote(chars) == <<"\"">> \o chars \o <<"\"">>

\* a JSON object text with the members "date", "time" and "confidence"; a
\* member whose value text is <<>> is left out
JsonObject(date, time, confidence) ==
    LET member(k, text) == IF text = <<>> THEN <<>> ELSE <<Quote(K(k)) \o <<":", " ">> \o text>>
    IN  <<"{">> \o join(<<",", " ">>, member("date", date) \o member("time", time)
                        \o member("confidence", confidence)) \o <<"}">>

DateTexts == {<<>>, <<"null">>, <<"7">>, Quote(Chars_2026_01_20), Quote(Chars_2026_13_40),
              Quote(Chars_2026_1_5), Quote(Chars_2026_03_08)}
TimeTexts == {<<>>, <<"1", "9">>, Quote(Chars_19_00), Quote(Chars_02_30), Quote(Chars_7_pm)}
ConfidenceTexts == {<<>>, <<"true">>, Quote(K("high")), Quote(K("low")), Quote(K("HIGH"))}

\* texts the generation service may give the normaliser: objects, JSON
\* values that are no object, and texts that are no JSON
NormalizerTexts ==
    {JsonObject(d, t, c) : d \in DateTexts, t \in TimeTexts, c \in ConfidenceTexts}
    \cup {<<"\n">> \o JsonObject(Quote(Chars_2026_01_20), Quote(Chars_19_00), Quote(K("high")))
            \o <<"\n">>}
    \cup {<<"[", "]">>, <<"[", "1", ",", " ", "2", "]">>, <<"4", "2">>, <<"null">>,
          Quote(Chars_2026_01_20)}
    \cup {<<>>, K("No puedo resolver la fecha."),
          <<"Resultado:", "\n">> \o JsonObject(Quote(Chars_2026_01_20), Quote(Chars_19_00),
                                               Quote(K("high"))),
          <<"{">> \o Quote(K("date")) \o <<":", " ">> \o Quote(Chars_2026_01_20) \o <<",", "}">>}

SummaryTexts == {<<>>, <<" ", "El cliente pidió una cita y quedó agendada.", "\n">>}

ReasoningItem == PyDict(K("type") :> PyStr(K("reasoning")))

MessageItem(kind, text) ==
    PyDict(K("type") :> PyStr(K("message"))
           @@ K("content") :> PyList(<<PyDict(K("type") :> PyStr(K(kind))
                                              @@ K("text") :> PyStr(text))>>))

Outcome(raises, output) == [raises |-> raises, output |-> output]

Failure == Outcome(TRUE, <<>>)

\* the service answers with the text after a reasoning item, answers with no
\* item, with a refusal instead of text, or fails
Outcomes(texts) ==
    {Outcome(FALSE, <<ReasoningItem, MessageItem("output_text", text)>>) : text \in texts}
    \cup {Outcome(FALSE, <<>>), Failure,
          Outcome(FALSE, <<MessageItem("refusal", K("No puedo ayudar con eso."))>>)}

BaseFields == K("conversation_id") :> PyStr(K("conv-1")) @@ K("channel") :> PyStr(K("voice"))

\* a payload and the payloads that differ from it in one field
Variants(base, changes) ==
    {base} \cup {Without(base, k) : k \in DOMAIN base}
           \cup {With(base, c[1], c[2]) : c \in changes}

MultiplicaPayloads ==
    Variants(BaseFields @@ K("number1") :> PyInt(3) @@ K("number2") :> PyInt(7),
             {<<K("number1"), PyInt(0)>>, <<K("number2"), None>>,
              <<K("conversation_id"), PyStr(<<>>)>>})

AgendarPayloads ==
    Variants(BaseFields @@ K("name") :> PyStr(K("Ana")) @@ K("purpose") :> PyStr(K("boda"))
                @@ K("visit_date") :> PyStr(K("el 20 de enero"))
                @@ K("visit_time") :> PyStr(Chars_7_pm),
             {<<K("visit_date"), PyStr(Chars_2026_01_20)>>, <<K("visit_time"), PyStr(<<>>)>>,
              <<K("channel"), None>>})

CotizarPayloads ==
    Variants(BaseFields @@ K("tipo_evento") :> PyStr(<<"B", "o", "d", "a">>)
                @@ K("numero_invitados") :> PyInt(10),
             {<<K("tipo_evento"), PyStr(<<"c", "o", "r", "p", "o", "r", "a", "t", "i", "v", "o">>)>>,
              <<K("tipo_evento"), PyStr(<<"f", "i", "e", "s", "t", "a">>)>>,
              <<K("numero_invitados"), PyInt(0)>>, <<K("channel"), PyStr(<<>>)>>})

Turn(role, content) == PyDict(K("role") :> PyStr(role) @@ K("content") :> PyStr(content))

UserHola == Turn(<<"u", "s", "e", "r">>, <<"H", "o", "l", "a">>)
AssistantEmpty == Turn(<<"a", "s", "s", "i", "s", "t", "a", "n", "t">>, <<>>)

Transcripts ==
    {PyList(<<>>), PyList(<<AssistantEmpty>>), PyList(<<UserHola, AssistantEmpty>>),
     PyList(<<PyDict(K("role") :> PyStr(<<"u", "s", "e", "r">>))>>),
     PyList(<<UserHola, Turn(<<"a", "s", "s", "i", "s", "t", "a", "n", "t">>,
                             <<" ", "S", "i", "\n", "o", "k", "\n">>)>>),
     PyList(<<PyDict(K("content") :> PyStr(<<"H", "o", "l", "a">>))>>),
     PyList(<<AssistantEmpty, UserHola, PyDict(K("role") :> PyStr(<<"u", "s", "e", "r">>)),
              Turn(<<"a", "s", "s", "i", "s", "t", "a", "n", "t">>, <<"\n">>)>>),
     None}

ConfirmedVisit ==
    K("name") :> PyStr(K("Ana")) @@ K("purpose") :> PyStr(K("boda"))
    @@ K("visit_date") :> PyStr(Chars_2026_01_20) @@ K("visit_time") :> PyStr(Chars_19_00)

AfterCallPayloads ==
    Variants(BaseFields
                @@ K("conversation_started_at") :> PyStr(Chars_2026_01_20 \o <<" ">> \o Chars_17_45_00)
                @@ K("conversation_ended_at") :> PyStr(Chars_2026_01_20 \o <<" ">> \o Chars_17_50_30)
                @@ K("transcript") :> PyList(<<UserHola>>),
             {<<K("transcript"), t>> : t \in Transcripts}
             \cup {<<K("channel"), PyStr(K("chat"))>>, <<K("channel"), PyStr(K("sms"))>>,
                   <<K("conversation_started_at"), PyStr(Chars_2026_01_20)>>,
                   <<K("conversation_ended_at"), None>>,
                   <<K("confirmed_visit"), PyDict(ConfirmedVisit)>>,
                   <<K("confirmed_visit"), PyDict(Without(ConfirmedVisit, K("name")))>>})

-----------------------------------------------------------------------------
(* The service *)

NoRequest == [endpoint |-> "", payload |-> EmptyDict]
NoReply == [status_code |-> 0, content |-> None]

Init ==
    /\ request = NoRequest
    /\ reply = NoReply
    /\ generation = <<>>
    /\ normalized = <<>>
    /\ appended = <<>>

\* Each action is one request answered: its handler has run to its return
\* or to its exception (h is what it did), and the response has been given.
MultiplicaNumeros(payload, h) ==
    /\ request' = [endpoint |-> "/salon-ibargo/multiplica-numeros", payload |-> payload]
    /\ reply' = respond(h.result)
    /\ generation' = h.calls
    /\ normalized' = h.normalized
    /\ appended' = h.appends

AgendarCita(payload, h) ==
    /\ request' = [endpoint |-> "/salon-ibargo/agendar-cita-disponibilidad", payload |-> payload]
    /\ reply' = respond(h.result)
    /\ generation' = h.calls
    /\ normalized' = h.normalized
    /\ appended' = h.appends

CotizarEvento(payload, h) ==
    /\ request' = [endpoint |-> "/salon-ibargo/cotizar-evento", payload |-> payload]
    /\ reply' = respond(h.result)
    /\ generation' = h.calls
    /\ normalized' = h.normalized
    /\ appended' = h.appends

AfterCall(payload, h) ==
    /\ request' = [endpoint |-> "/salon-ibargo/after-call", payload |-> payload]
    /\ reply' = respond(h.result)
    /\ generation' = h.calls
    /\ normalized' = h.normalized
    /\ appended' = h.appends

Next ==
    \/ \E payload \in MultiplicaPayloads :
            MultiplicaNumeros(payload, multiplica_numeros_endpoint(payload))
    \/ \E payload \in AgendarPayloads, now \in Now, o \in Outcomes(NormalizerTexts) :
            AgendarCita(payload, agendar_cita_disponibilidad_endpoint(payload, now, o))
    \/ \E payload \in CotizarPayloads :
            CotizarEvento(payload, cotizar_evento_endpoint(payload))
    \/ \E payload \in AfterCallPayloads, o \in Outcomes(SummaryTexts) :
            AfterCall(payload, handle_salon_after_call(payload, o))

Spec == Init /\ [][Next]_vars

-----------------------------------------------------------------------------
(* What the claims speak of *)

AgendarAnswered == request.endpoint = "/salon-ibargo/agendar-cita-disponibilidad"
AfterCallAnswered == request.endpoint = "/salon-ibargo/after-call"

NormalizerCalled == normalized # <<>>
NormalizerReturned == NormalizerCalled /\ ~normalized[1].raised

\* the result object the normaliser returned (when it returned)
Result == normalized[1].value.v[1]

High == PyStr(K("high"))
Low == PyStr(K("low"))

\* what the generation service did with the normaliser's call
Generated == generation[1].outcome

\* the text the service gave, as extract_text delivers it, and its JSON value
GeneratedText == extract_text(Response(Generated.output)).value.v
GeneratedData == json_loads(GeneratedText)
GeneratedObject ==
    /\ NormalizerCalled
    /\ ~Generated.raises
    /\ ~GeneratedData.raised
    /\ GeneratedData.value.t = "dict"

RawDate == get(GeneratedData.value.v[1], K("date"))
RawTime == get(GeneratedData.value.v[1], K("time"))
RawConfidence == get(GeneratedData.value.v[1], K("confidence"))

\* x is a str that reads as a date (as a 24-hour time) under the format
ParsesAs(x, fmt) == isinstance_str(x) /\ ~strptime(x, fmt).raised

\* x is a str in the canonical form of the format: it parses, and writing the
\* parsed value with the same format gives x back
Canonical(x, fmt) ==
    /\ ParsesAs(x, fmt)
    /\ strftime(strptime(x, fmt).value, fmt) = x.v

\* C1: every result the normaliser returns has confidence "high" exactly when
\* its visit_datetime_iso is not null and its visit_date and visit_time are in
\* the forms YYYY-MM-DD and HH:MM; any other result has confidence "low" and a
\* null visit_datetime_iso.
C1_ConfidenceIffTimestamp ==
    NormalizerReturned =>
        /\ (Result[K("confidence")] = High) <=>
                /\ Result[K("visit_datetime_iso")] # None
                /\ Canonical(Result[K("visit_date")], DATE_FORMAT)
                /\ Canonical(Result[K("visit_time")], TIME_FORMAT)
        /\ Result[K("confidence")] # High =>
                /\ Result[K("confidence")] = Low
                /\ Result[K("visit_datetime_iso")] = None

\* a result was returned for a call the service answered with a JSON object
C1_Witness == NormalizerReturned /\ GeneratedObject /\ Result[K("confidence")] = Low

\* C2: the normaliser never raises: whatever the service did, it returns a
\* result object whose confidence is "high" or "low".
C2_NeverRaises ==
    NormalizerCalled =>
        /\ ~normalized[1].raised
        /\ normalized[1].value.t = "dict"
        /\ Result[K("confidence")] \in {High, Low}

\* the service answered with JSON that is no object, and a result came back
C2_Witness ==
    /\ NormalizerReturned
    /\ ~Generated.raises
    /\ ~GeneratedData.raised
    /\ GeneratedData.value.t \in {"list", "int", "str", "None"}

\* C3: when the generation call raises, or the text it gave is no JSON, the
\* result has visit_date, visit_time and visit_datetime_iso null, the timezone
\* "America/Los_Angeles" and confidence "low".
C3_FailureGivesNullLow ==
    (NormalizerCalled /\ (Generated.raises \/ GeneratedData.raised)) =>
        /\ NormalizerReturned
        /\ DOMAIN Result = {K("visit_date"), K("visit_time"), K("visit_datetime_iso"),
                            K("timezone"), K("confidence")}
        /\ Result[K("visit_date")] = None
        /\ Result[K("visit_time")] = None
        /\ Result[K("visit_datetime_iso")] = None
        /\ Result[K("timezone")] = PyStr(K("America/Los_Angeles"))
        /\ Result[K("confidence")] = Low

\* the service answered with a text that is no JSON, and a result came back
C3_Witness ==
    /\ NormalizerReturned
    /\ ~Generated.raises
    /\ GeneratedText # <<>>
    /\ GeneratedData.raised

\* the call itself raised, and a result came back
C3_WitnessRaise == NormalizerReturned /\ Generated.raises

\* C4: when the service's JSON object has a date and a time that parse but a
\* confidence other than "high", the result has confidence "low", a null
\* visit_datetime_iso, and the date and time strings the service gave.
C4_GateKeepsRawStrings ==
    (/\ GeneratedObject
     /\ ParsesAs(RawDate, DATE_FORMAT)
     /\ ParsesAs(RawTime, TIME_FORMAT)
     /\ RawConfidence # High) =>
        /\ NormalizerReturned
        /\ Result[K("confidence")] = Low
        /\ Result[K("visit_datetime_iso")] = None
        /\ Result[K("visit_date")] = RawDate
        /\ Result[K("visit_time")] = RawTime

\* C5: when the service's JSON object fails validation (date or time absent
\* or no text, or a text that does not parse), the result has confidence
\* "low", a null visit_datetime_iso, and the date and time values the service
\* gave, of whatever type, even if it said confidence "high".
C5_InvalidKeepsRawValues ==
    (/\ GeneratedObject
     /\ ~(ParsesAs(RawDate, DATE_FORMAT) /\ ParsesAs(RawTime, TIME_FORMAT))) =>
        /\ NormalizerReturned
        /\ Result[K("confidence")] = Low
        /\ Result[K("visit_datetime_iso")] = None
        /\ Result[K("visit_date")] = RawDate
        /\ Result[K("visit_time")] = RawTime

ISO_FORMAT == <<"%Y", "-", "%m", "-", "%d", "T", "%H", ":", "%M", ":", "%S">>

\* the wall time an ISO timestamp with offset reads back as, and its offset
\* the one the anchor zone has at that wall time
ReadsBackAs(iso, date, time) ==
    LET wall == strptime(PyStr(SubSeq(iso.v, 1, 19)), ISO_FORMAT)
        d == strptime(date, DATE_FORMAT).value.v[1]
        t == strptime(time, TIME_FORMAT).value.v[1]
    IN  /\ isinstance_str(iso)
        /\ ~wall.raised
        /\ wall.value.v[1] = [d EXCEPT !.hour = t.hour, !.minute = t.minute]
        /\ isoformat(replace_tzinfo(wall.value, PST)) = iso.v

\* C6: when the service's JSON object has a date and a time that parse and
\* confidence "high", the result has confidence "high", the date and time in
\* canonical form, and a visit_datetime_iso that reads back as that date and
\* time in the anchor zone.
C6_HighConfidenceRoundTrip ==
    (/\ GeneratedObject
     /\ ParsesAs(RawDate, DATE_FORMAT)
     /\ ParsesAs(RawTime, TIME_FORMAT)
     /\ RawConfidence = High) =>
        /\ NormalizerReturned
        /\ Result[K("confidence")] = High
        /\ Result[K("visit_date")] = PyStr(strftime(strptime(RawDate, DATE_FORMAT).value, DATE_FORMAT))
        /\ Result[K("visit_time")] = PyStr(strftime(strptime(RawTime, TIME_FORMAT).value, TIME_FORMAT))
        /\ ReadsBackAs(Result[K("visit_datetime_iso")], RawDate, RawTime)

\* the content of the reply, a JSON object
Content == reply.content.v[1]

Rejected == reply.status_code \in 400..499 /\ K("detail") \in DOMAIN Content

\* C7: the booking endpoint answers "confirmed" with a confirmed_visit only
\* when the normaliser's result for the request has confidence "high", and the
\* confirmed visit carries the result's visit_date and visit_time; under a
\* result of any other confidence the request is rejected with a client error
\* and no confirmed_visit.
C7_CommitsOnlyUnderHigh ==
    AgendarAnswered =>
        /\ (reply.status_code = 200 \/ K("confirmed_visit") \in DOMAIN Content) =>
                /\ NormalizerReturned
                /\ Result[K("confidence")] = High
                /\ Content[K("status")] = PyStr(K("confirmed"))
                /\ Content[K("confirmed_visit")].v[1][K("visit_date")] = Result[K("visit_date")]
                /\ Content[K("confirmed_visit")].v[1][K("visit_time")] = Result[K("visit_time")]
        /\ (NormalizerReturned /\ Result[K("confidence")] # High) =>
                /\ Rejected
                /\ K("confirmed_visit") \notin DOMAIN Content
                /\ K("status") \notin DOMAIN Content

\* a booking request with every field given was rejected on a low result
C7_Witness ==
    /\ AgendarAnswered
    /\ NormalizerReturned
    /\ Result[K("confidence")] = Low
    /\ reply.status_code = 400
    /\ Content[K("detail")] = PyStr(K("Visit date/time could not be confidently normalized"))

\* the transcript the after-call handler reads from the request
Transcript ==
    IF K("transcript") \in DOMAIN request.payload
    THEN request.payload[K("transcript")] ELSE PyList(<<>>)

\* a list of turns none of which has content
OnlyEmptyContent(transcript) ==
    /\ transcript.t = "list"
    /\ \A i \in 1..Len(transcript.v) :
            /\ transcript.v[i].t = "dict"
            /\ ~Truthy(get(transcript.v[i].v[1], K("content")))

\* C8: for a transcript whose turns all have empty content (the empty
\* transcript included), transcript_to_single_line returns the empty string,
\* the after-call handler makes no generation call, and the summary in the
\* row it appends is null.
C8_EmptyContentNotSummarized ==
    (AfterCallAnswered /\ OnlyEmptyContent(Transcript)) =>
        /\ transcript_to_single_line(Transcript) = Return(PyStr(<<>>))
        /\ generation = <<>>
        /\ \A i \in 1..Len(appended) :
                K("Resumen") \in DOMAIN appended[i].row => appended[i].row[K("Resumen")] = None

\* the generation service raised on a call made for the request
GenerationFailed == \E i \in 1..Len(generation) : generation[i].outcome.raises

\* C9: a request in which the generation service raises is still answered
\* with its degraded outcome, never with a 500: the after-call handler appends
\* the conversation row with a null or empty summary, the booking endpoint
\* gets a low-confidence result.
C9_GenerationFailureDegrades ==
    GenerationFailed =>
        /\ reply.status_code # 500
        /\ AfterCallAnswered =>
                /\ appended # <<>>
                /\ appended[1].row[K("Resumen")] \in {None, PyStr(<<>>)}
        /\ AgendarAnswered =>
                /\ NormalizerReturned
                /\ Result[K("confidence")] = Low

\* the fields a request to the endpoint must carry
Required(endpoint) ==
    {K("conversation_id"), K("channel")} \cup
    CASE endpoint = "/salon-ibargo/multiplica-numeros" -> {K("number1"), K("number2")}
      [] endpoint = "/salon-ibargo/agendar-cita-disponibilidad" ->
            {K("name"), K("visit_date"), K("visit_time"), K("purpose")}
      [] endpoint = "/salon-ibargo/cotizar-evento" -> {K("tipo_evento"), K("numero_invitados")}
      [] endpoint = "/salon-ibargo/after-call" ->
            {K("conversation_started_at"), K("conversation_ended_at")}
      [] OTHER -> {}

\* C10: on every endpoint, a request that lacks a required field is rejected
\* with a client error that carries a reason, never answered with a 500, and
\* neither a generation call nor an append is made for it.
C10_MissingFieldRejected ==
    (request # NoRequest /\ ~(Required(request.endpoint) \subseteq DOMAIN request.payload)) =>
        /\ Rejected
        /\ reply.status_code # 500
        /\ generation = <<>>
        /\ appended = <<>>

\* the keys the headers list of an append names
HeaderSet(headers) == {headers[i] : i \in 1..Len(headers)}

\* C11: every row the after-call handler passes to append_row_to_sheet has
\* exactly the keys of the headers list passed in the same call, so no header
\* of CALL_HEADERS, CHAT_HEADERS or VISIT_HEADERS is left without a value.
C11_RowKeysMatchHeaders ==
    \A i \in 1..Len(appended) : DOMAIN appended[i].row = HeaderSet(appended[i].headers)

\* a list of turns, each with a role that is a str and a content that is a
\* str or absent
WellFormed(transcript) ==
    /\ transcript.t = "list"
    /\ \A i \in 1..Len(transcript.v) :
            /\ transcript.v[i].t = "dict"
            /\ K("role") \in DOMAIN transcript.v[i].v[1]
            /\ isinstance_str(transcript.v[i].v[1][K("role")])
            /\ K("content") \in DOMAIN transcript.v[i].v[1] =>
                    isinstance_str(transcript.v[i].v[1][K("content")])

\* the turn has content, and it is not the empty string
HasContent(turn) ==
    /\ K("content") \in DOMAIN turn.v[1]
    /\ turn.v[1][K("content")].v # <<>>

\* "<ROLE UPPERCASED>: <content with newlines replaced by spaces, trimmed>"
Rendered(turn) ==
    upper(turn.v[1][K("role")].v) \o <<":", " ">>
        \o strip(replace(turn.v[1][K("content")].v, "\n", " "))

\* the renderings of the turns, in order, with " | " between two of them
RECURSIVE Joined(_)
Joined(turns) ==
    IF turns = <<>> THEN <<>>
    ELSE IF Len(turns) = 1 THEN Rendered(turns[1])
    ELSE Joined(SubSeq(turns, 1, Len(turns) - 1)) \o <<" ", "|", " ">>
            \o Rendered(turns[Len(turns)])

\* C12: for every transcript (a list of role/content turns, content possibly
\* empty or absent) transcript_to_single_line returns, without raising, the
\* turns whose content is non-empty, in their order, each rendered as
\* "<ROLE UPPERCASED>: <content with newlines replaced by spaces, trimmed>",
\* joined by " | "; that string is what the handler writes in the row.
C12_FlattenTotal ==
    (AfterCallAnswered /\ WellFormed(Transcript)) =>
        /\ transcript_to_single_line(Transcript)
                = Return(PyStr(Joined(SelectSeq(Transcript.v, HasContent))))
        /\ \A i \in 1..Len(appended) :
                K("Transcripción") \in DOMAIN appended[i].row =>
                    appended[i].row[K("Transcripción")]
                        = PyStr(Joined(SelectSeq(Transcript.v, HasContent)))

\* [user "Hola", assistant ""] was flattened to "USER: Hola" and written
C12_Witness ==
    /\ AfterCallAnswered
    /\ Transcript = PyList(<<UserHola, AssistantEmpty>>)
    /\ appended # <<>>
    /\ appended[1].row[K("Transcripción")]
            = PyStr(<<"U", "S", "E", "R", ":", " ", "H", "o", "l", "a">>)

====
